---- MODULE Spec2Model ----
(***************************************************************************)
(* Model of crhuber/dot: the profile merge (config.GetProfiles) and the    *)
(* link reconciliation (linker.Link, linker.Clean) over a small file       *)
(* system.  Paths are sequences of path tokens ("~", "/", a name, or the   *)
(* backup suffix ".bak"), so that path functions are computed, not assumed.*)
(***************************************************************************)
EXTENDS Integers, Sequences, FiniteSets, TLC

VARIABLES mappingsFile, table, call, srcExists, fs, run

vars == <<mappingsFile, table, call, srcExists, fs, run>>

(***************************************************************************)
(* Bounds                                                                  *)
(***************************************************************************)
\* longest requested profile list
MaxNames == 2

(***************************************************************************)
(* Go maps as TLA+ functions                                               *)
(***************************************************************************)
EmptyMap == [x \in {} |-> x]

MapSet(m, k, v) == [x \in (DOMAIN m) \cup {k} |-> IF x = k THEN v ELSE m[x]]

MapDelete(m, k) == [x \in (DOMAIN m) \ {k} |-> m[x]]

(***************************************************************************)
(* The universe of configurations                                          *)
(***************************************************************************)
\* source paths, relative to the dotfiles directory
Sources == {<<"a">>, <<"b">>}

\* target paths as written in .mappings
TargetX == <<"~", "/", "x">>
TargetY == <<"~", "/", "s", "/", "y">>
Targets == {TargetX, TargetY}

ProfileNames == {"general", "work", "home"}

\* type Profile map[string]string
Profile == UNION {[S -> Targets] : S \in SUBSET Sources}

\* Config.Profiles map[string]Profile
Config == UNION {[N -> Profile] : N \in SUBSET ProfileNames}

\* the orders in which a range over a map may visit its keys
KeyOrders == {o \in [1..Cardinality(Sources) -> Sources] :
                 \A i, j \in DOMAIN o : i # j => o[i] # o[j]}

\* the keys of map m in the order o
RangeKeys(m, o) == SelectSeq(o, LAMBDA k : k \in DOMAIN m)

NameLists == UNION {[1..n -> ProfileNames] : n \in 0..MaxNames}

(***************************************************************************)
(* config.ParseConfig.  The .mappings file is "missing", "malformed" (the  *)
(* TOML decoder rejects it) or "parsed", and then decodes to a table.      *)
(***************************************************************************)
FileStates == {"missing", "malformed", "parsed"}

\* return &config, nil
Parsed(profiles) == [config |-> profiles, nil |-> FALSE, err |-> ""]

\* return nil, fmt.Errorf(...)
ParseError(msg) == [config |-> EmptyMap, nil |-> TRUE, err |-> msg]

\* ParseConfig, had it not required the [general] profile
ParseConfigAnyTable(state, profiles) ==
    IF state = "missing" THEN ParseError(".mappings file not found")
    ELSE IF state = "malformed" THEN ParseError("failed to parse .mappings file")
    ELSE Parsed(profiles)

\* ParseConfig on a file in the given state that decodes to profiles
ParseConfig(state, profiles) ==
    IF state = "missing" THEN ParseError(".mappings file not found")
    ELSE IF state = "malformed" THEN ParseError("failed to parse .mappings file")
    ELSE IF "general" \notin DOMAIN profiles
    THEN ParseError("[general] profile is required but not found in .mappings")
    ELSE Parsed(profiles)

(***************************************************************************)
(* config.GetProfiles                                                      *)
(***************************************************************************)
NoError == [missing |-> ""]

\* return result, nil
Returned(result) == [result |-> result, nil |-> FALSE, err |-> NoError]

\* return nil, fmt.Errorf("profile [%s] not found in .mappings", profileName)
NotFound(profileName) ==
    [result |-> EmptyMap, nil |-> TRUE, err |-> [missing |-> profileName]]

\* SeedGeneral, had it removed the entry that held the target before
RECURSIVE SeedGeneralDedup(_, _, _)
SeedGeneralDedup(st, general, keys) ==
    IF keys = <<>> THEN st
    ELSE LET src == Head(keys)
             target == general[src]
             cleared == IF target \in DOMAIN st.targetToSource
                        THEN MapDelete(st.result, st.targetToSource[target])
                        ELSE st.result
         IN SeedGeneralDedup([result |-> MapSet(cleared, src, target),
                              targetToSource |-> MapSet(st.targetToSource, target, src)],
                             general, Tail(keys))

\* the loop body of the range over the general profile
RECURSIVE SeedGeneral(_, _, _)
SeedGeneral(st, general, keys) ==
    IF keys = <<>> THEN st
    ELSE LET src == Head(keys)
             target == general[src]
         IN SeedGeneral([result |-> MapSet(st.result, src, target),
                         targetToSource |-> MapSet(st.targetToSource, target, src)],
                        general, Tail(keys))

\* the loop body of the range over a requested profile
RECURSIVE ApplyProfile(_, _, _)
ApplyProfile(st, profile, keys) ==
    IF keys = <<>> THEN st
    ELSE LET src == Head(keys)
             target == profile[src]
             cleared == IF target \in DOMAIN st.targetToSource
                        THEN MapDelete(st.result, st.targetToSource[target])
                        ELSE st.result
         IN ApplyProfile([result |-> MapSet(cleared, src, target),
                          targetToSource |-> MapSet(st.targetToSource, target, src)],
                         profile, Tail(keys))

\* ApplyNames, had it applied general at its place in the list
RECURSIVE ApplyNamesNoSkip(_, _, _, _, _)
ApplyNamesNoSkip(c, profileNames, i, st, ord) ==
    IF i > Len(profileNames) THEN Returned(st.result)
    ELSE LET profileName == profileNames[i]
         IN IF profileName \notin DOMAIN c
            THEN NotFound(profileName)
            ELSE ApplyNamesNoSkip(c, profileNames, i + 1,
                                  ApplyProfile(st, c[profileName],
                                               RangeKeys(c[profileName], ord[i])),
                                  ord)

\* ApplyNames, had it passed over a name that is not in the table
RECURSIVE ApplyNamesSkipMissing(_, _, _, _, _)
ApplyNamesSkipMissing(c, profileNames, i, st, ord) ==
    IF i > Len(profileNames) THEN Returned(st.result)
    ELSE LET profileName == profileNames[i]
         IN IF profileName = "general" \/ profileName \notin DOMAIN c
            THEN ApplyNamesSkipMissing(c, profileNames, i + 1, st, ord)
            ELSE ApplyNamesSkipMissing(c, profileNames, i + 1,
                                       ApplyProfile(st, c[profileName],
                                                    RangeKeys(c[profileName], ord[i])),
                                       ord)

\* the loop over the requested names, from position i on
RECURSIVE ApplyNames(_, _, _, _, _)
ApplyNames(c, profileNames, i, st, ord) ==
    IF i > Len(profileNames) THEN Returned(st.result)
    ELSE LET profileName == profileNames[i]
         IN IF profileName = "general"
            THEN ApplyNames(c, profileNames, i + 1, st, ord)
            ELSE IF profileName \notin DOMAIN c
            THEN NotFound(profileName)
            ELSE ApplyNames(c, profileNames, i + 1,
                            ApplyProfile(st, c[profileName],
                                         RangeKeys(c[profileName], ord[i])),
                            ord)

\* the result map, had it been the map of general itself and not a new one
MakeProfileGeneral(c) ==
    [map |-> IF "general" \in DOMAIN c THEN c["general"] ELSE EmptyMap,
     shares |-> "general"]

\* result := make(Profile): a new empty map, which is the map of no profile
MakeProfile(c) == [map |-> EmptyMap, shares |-> ""]

\* the profile table once the call has written result: a write to a map that
\* is the map of a profile is a write to that profile
WriteThrough(c, shares, result) ==
    IF shares \in DOMAIN c THEN [c EXCEPT ![shares] = result] ELSE c

\* GetProfiles, had it applied general only when the list names it
GetProfilesNoSeed(c, profileNames, ord) ==
    LET names == IF Len(profileNames) = 0 THEN <<"general">> ELSE profileNames
        empty == [result |-> EmptyMap, targetToSource |-> EmptyMap]
        seeded == IF "general" \in DOMAIN c
                     /\ \E i \in DOMAIN names : names[i] = "general"
                  THEN SeedGeneral(empty, c["general"], RangeKeys(c["general"], ord[0]))
                  ELSE empty
    IN ApplyNames(c, names, 1, seeded, ord)

\* GetProfiles(profileNames) on configuration c; ord[0] is the order of the
\* range over general, ord[i] the order of the range over the i-th name
GetProfiles(c, profileNames, ord) ==
    LET names == IF Len(profileNames) = 0 THEN <<"general">> ELSE profileNames
        empty == [result |-> MakeProfile(c).map, targetToSource |-> EmptyMap]
        seeded == IF "general" \in DOMAIN c
                  THEN SeedGeneral(empty, c["general"], RangeKeys(c["general"], ord[0]))
                  ELSE empty
    IN ApplyNames(c, names, 1, seeded, ord)

\* the orders of the ranges of one call: of general, and of each requested name
\* (the empty list is a list of one name)
Orders(profileNames) ==
    [0..(IF Len(profileNames) = 0 THEN 1 ELSE Len(profileNames)) -> KeyOrders]


(***************************************************************************)
(* Paths: filepath.Clean, filepath.Join, filepath.Dir, utils.ExpandPath    *)
(* on sequences of tokens.  The tokens "." and ".." are not in the model.  *)
(***************************************************************************)
\* a run of separators becomes one separator
RECURSIVE SqueezeSlashes(_)
SqueezeSlashes(p) ==
    IF Len(p) < 2 THEN p
    ELSE IF p[1] = "/" /\ p[2] = "/" THEN SqueezeSlashes(Tail(p))
    ELSE <<p[1]>> \o SqueezeSlashes(Tail(p))

\* filepath.Clean: no doubled separator, no trailing separator but the root's
Clean(p) ==
    LET q == SqueezeSlashes(p)
    IN IF q = <<>> THEN <<".">>
       ELSE IF Len(q) > 1 /\ q[Len(q)] = "/" THEN SubSeq(q, 1, Len(q) - 1)
       ELSE q

\* filepath.Join of two elements: empty elements are ignored
Join(a, b) ==
    IF a = <<>> /\ b = <<>> THEN <<>>
    ELSE IF a = <<>> THEN Clean(b)
    ELSE IF b = <<>> THEN Clean(a)
    ELSE Clean(a \o <<"/">> \o b)

\* the position of the last separator of p, 0 when there is none
RECURSIVE LastSlash(_, _)
LastSlash(p, i) ==
    IF i = 0 THEN 0 ELSE IF p[i] = "/" THEN i ELSE LastSlash(p, i - 1)

\* filepath.Dir: all but the last element of the path
Dir(p) == Clean(SubSeq(p, 1, LastSlash(p, Len(p))))

\* os.UserHomeDir() as the linker's environment provides it ($HOME is set)
Home == [err |-> FALSE, dir |-> <<"/", "h">>]

\* dotfiles.GetDotfilesDir() with $DOT_DIR set
DotfilesDir == <<"/", "d">>

\* ExpandPath, had it expanded every path that begins with the home marker
ExpandPathAnyTilde(path, home) ==
    IF ~(Len(path) >= 1 /\ path[1] = "~") THEN path
    ELSE IF home.err THEN path
    ELSE IF path = <<"~">> THEN home.dir
    ELSE Join(home.dir, SubSeq(path, 2, Len(path)))

\* utils.ExpandPath, with the outcome of os.UserHomeDir() as a parameter
ExpandPath(path, home) ==
    IF ~(Len(path) >= 1 /\ path[1] = "~") THEN path
    ELSE IF home.err THEN path
    ELSE IF path = <<"~">> THEN home.dir
    ELSE IF Len(path) >= 2 /\ path[2] = "/"
         THEN Join(home.dir, SubSeq(path, 3, Len(path)))
    ELSE path

\* backupPath := path + ".bak"
BackupPath(path) == path \o <<".bak">>

\* sourcePath := filepath.Join(dotfilesDir, source)
SourcePath(source) == Join(DotfilesDir, source)

(***************************************************************************)
(* The file system: what lies at each tracked path.  A file or directory   *)
(* carries the path it was first seen at (its identity), a symbolic link   *)
(* the target string stored in it.                                         *)
(***************************************************************************)
Absent == [kind |-> "absent", tag |-> <<>>]
File(p) == [kind |-> "file", tag |-> p]
Directory(p) == [kind |-> "dir", tag |-> p]
Symlink(dest) == [kind |-> "symlink", tag |-> dest]

PathX == ExpandPath(TargetX, Home)
PathY == ExpandPath(TargetY, Home)
PathS == Dir(PathY)

FsPaths == {PathX, BackupPath(PathX), PathS, PathY, BackupPath(PathY)}

\* the entry at path p: the home directory exists, an untracked path does not
Lookup(f, p) ==
    IF p = Home.dir \/ p = <<"/">> THEN Directory(p)
    ELSE IF p \in DOMAIN f THEN f[p]
    ELSE Absent

\* os.Lstat: "ok", or the error of the path lookup
Lstat(f, p) ==
    LET parent == Lookup(f, Dir(p))
    IN IF parent.kind = "absent" THEN "ENOENT"
       ELSE IF parent.kind # "dir" THEN "ENOTDIR"
       ELSE IF Lookup(f, p).kind = "absent" THEN "ENOENT"
       ELSE "ok"

\* os.Stat(path) returns no error: the path exists after following a link
\* (a link into the dotfiles directory leads to a source file)
StatOk(f, exists, p) ==
    /\ Lstat(f, p) = "ok"
    /\ Lookup(f, p).kind = "symlink" =>
           \E s \in exists : Lookup(f, p).tag = SourcePath(s)

\* the file system with entry e at path p
Put(f, p, e) == [f EXCEPT ![p] = e]

\* os.Remove and os.RemoveAll of an entry without tracked children
Remove(f, p) == Put(f, p, Absent)

\* os.Rename: a directory replaces only a directory, anything else replaces
\* anything but a directory
RenameOk(f, old, new) ==
    LET o == Lookup(f, old)
        n == Lookup(f, new)
    IN /\ o.kind # "absent"
       /\ n.kind # "absent" => (o.kind = "dir") = (n.kind = "dir")

Rename(f, old, new) == Put(Put(f, new, Lookup(f, old)), old, Absent)

\* os.MkdirAll: [err, fs]
RECURSIVE MkdirAll(_, _)
MkdirAll(f, d) ==
    LET e == Lookup(f, d)
    IN IF e.kind = "dir" THEN [err |-> FALSE, fs |-> f]
       ELSE IF e.kind # "absent" THEN [err |-> TRUE, fs |-> f]
       ELSE LET up == MkdirAll(f, Dir(d))
            IN IF up.err \/ d \notin DOMAIN f THEN [err |-> TRUE, fs |-> up.fs]
               ELSE [err |-> FALSE, fs |-> Put(up.fs, d, Directory(d))]

\* os.Symlink fails when something is at the path or its parent is no directory
SymlinkOk(f, p) == Lstat(f, p) = "ENOENT" /\ Lookup(f, Dir(p)).kind = "dir"

\* the system calls that may fail for a reason outside the model (EACCES, EIO)
Faults == {"none", "lstat", "readlink", "remove", "removeall", "rename",
           "mkdirall", "symlink"}

\* the system calls of Clean: os.Lstat, os.Remove
CleanFaults == {"none", "lstat", "remove"}

\* the system calls of Check and List: os.Lstat, os.Readlink
ReadFaults == {"none", "lstat", "readlink"}

(***************************************************************************)
(* utils.BackupFile                                                        *)
(***************************************************************************)
\* [err, fs]: the existing backup is removed, then the path is renamed
BackupFile(f, exists, path, fault) ==
    LET backupPath == BackupPath(path)
        found == StatOk(f, exists, backupPath)
        f1 == IF found THEN Remove(f, backupPath) ELSE f
    IN IF found /\ fault = "removeall" THEN [err |-> TRUE, fs |-> f]
       ELSE IF fault = "rename" \/ ~RenameOk(f1, path, backupPath)
            THEN [err |-> TRUE, fs |-> f1]
       ELSE [err |-> FALSE, fs |-> Rename(f1, path, backupPath)]

(***************************************************************************)
(* linker.Link and linker.Clean: the body of the loop over the mapping     *)
(***************************************************************************)
\* one line written to stdout or stderr about the entry of a source
Line(msg, source) == [msg |-> msg, src |-> source]

\* IsSymlinkMode, had it taken every entry for a symlink
AnyMode(e) == TRUE

\* stat.Mode()&os.ModeSymlink != 0
IsSymlinkMode(e) == e.kind = "symlink"

\* the outcome of os.Lstat(targetPath) in an iteration
LstatResult(f, targetPath, fault) ==
    IF fault = "lstat" THEN "EACCES" ELSE Lstat(f, targetPath)

\* SameLink, had it compared the paths after filepath.Clean
SameLinkCleaned(linkTarget, sourcePath) == Clean(linkTarget) = Clean(sourcePath)

\* linkTarget == sourcePath: the comparison of the strings
SameLink(linkTarget, sourcePath) == linkTarget = sourcePath

\* OverrideLink, had it removed the symlink in a dry run too
OverrideLinkAlways(f, targetPath, dryRun, fault) ==
    IF fault = "remove" THEN [err |-> TRUE, fs |-> f]
    ELSE [err |-> FALSE, fs |-> Remove(f, targetPath)]

\* Link: remove the existing symlink to override it, unless dry-run
OverrideLink(f, targetPath, dryRun, fault) ==
    IF ~dryRun
    THEN IF fault = "remove" THEN [err |-> TRUE, fs |-> f]
         ELSE [err |-> FALSE, fs |-> Remove(f, targetPath)]
    ELSE [err |-> FALSE, fs |-> f]

\* Link: back up the file or directory at the target, unless dry-run
BackupTarget(f, exists, targetPath, dryRun, fault) ==
    IF ~dryRun THEN BackupFile(f, exists, targetPath, fault)
    ELSE [err |-> FALSE, fs |-> f]

\* Link: create the symlink, or say so when dry-run
CreateLink(f, targetPath, sourcePath, source, dryRun, fault) ==
    IF dryRun
    THEN [fs |-> f, out |-> <<Line("Would create", source)>>, failed |-> FALSE]
    ELSE LET made == MkdirAll(f, Dir(targetPath))
         IN IF fault = "mkdirall"
            THEN [fs |-> f, out |-> <<Line("Error creating directory", source)>>,
                  failed |-> TRUE]
            ELSE IF made.err
            THEN [fs |-> made.fs, out |-> <<Line("Error creating directory", source)>>,
                  failed |-> TRUE]
            ELSE IF fault = "symlink" \/ ~SymlinkOk(made.fs, targetPath)
            THEN [fs |-> made.fs, out |-> <<Line("Error creating link", source)>>,
                  failed |-> TRUE]
            ELSE [fs |-> Put(made.fs, targetPath, Symlink(sourcePath)),
                  out |-> <<Line("Created", source)>>, failed |-> FALSE]

\* SourceMissing, had Link not looked for the source
SourcePresent(exists, source) == FALSE

\* Link: os.Stat(sourcePath) says the source does not exist
SourceMissing(exists, source) == source \notin exists

\* Link: one iteration of the loop, for the entry of source in mapping m
LinkOne(f, exists, m, source, dryRun, fault) ==
    LET targetPath == ExpandPath(m[source], Home)
        sourcePath == SourcePath(source)
        st == LstatResult(f, targetPath, fault)
        e == Lookup(f, targetPath)
        create(f1, said, bad) ==
            LET c == CreateLink(f1, targetPath, sourcePath, source, dryRun, fault)
            IN [fs |-> c.fs, out |-> said \o c.out, failed |-> bad \/ c.failed]
    IN IF SourceMissing(exists, source)
       THEN [fs |-> f, out |-> <<Line("Warning: Source file does not exist", source)>>,
             failed |-> FALSE]
       ELSE IF st # "ok" THEN create(f, <<>>, st # "ENOENT")
       ELSE IF IsSymlinkMode(e)
       THEN IF fault = "readlink"
            THEN [fs |-> f, out |-> <<Line("Error reading existing link", source)>>,
                  failed |-> TRUE]
            ELSE IF SameLink(e.tag, sourcePath)
            THEN [fs |-> f, out |-> <<Line("Skipped (already correct)", source)>>,
                  failed |-> FALSE]
            ELSE LET r == OverrideLink(f, targetPath, dryRun, fault)
                 IN IF r.err
                    THEN [fs |-> r.fs,
                          out |-> <<Line("Error removing existing link", source)>>,
                          failed |-> TRUE]
                    ELSE create(r.fs, <<Line("Overriding", source)>>, FALSE)
       ELSE LET r == BackupTarget(f, exists, targetPath, dryRun, fault)
            IN IF r.err
               THEN [fs |-> r.fs, out |-> <<Line("Error backing up", source)>>,
                     failed |-> TRUE]
               ELSE create(r.fs, <<Line("Backed up", source)>>, FALSE)

\* CleanOne, had it removed only a symlink that points to the source
CleanOneOnlyCorrect(f, m, source, fault) ==
    LET targetPath == ExpandPath(m[source], Home)
        st == LstatResult(f, targetPath, fault)
    IN IF st = "ENOENT"
       THEN [fs |-> f, out |-> <<Line("Skipped (not found)", source)>>,
             failed |-> FALSE]
       ELSE IF st # "ok"
       THEN [fs |-> f, out |-> <<Line("Error checking", source)>>, failed |-> TRUE]
       ELSE IF Lookup(f, targetPath) # Symlink(SourcePath(source))
       THEN [fs |-> f, out |-> <<Line("Skipped (not a symlink)", source)>>,
             failed |-> FALSE]
       ELSE IF fault = "remove"
       THEN [fs |-> f, out |-> <<Line("Error removing", source)>>, failed |-> TRUE]
       ELSE [fs |-> Remove(f, targetPath), out |-> <<Line("Removed", source)>>,
             failed |-> FALSE]

\* Clean: one iteration of the loop, for the entry of source in mapping m
CleanOne(f, m, source, fault) ==
    LET targetPath == ExpandPath(m[source], Home)
        st == LstatResult(f, targetPath, fault)
    IN IF st = "ENOENT"
       THEN [fs |-> f, out |-> <<Line("Skipped (not found)", source)>>,
             failed |-> FALSE]
       ELSE IF st # "ok"
       THEN [fs |-> f, out |-> <<Line("Error checking", source)>>, failed |-> TRUE]
       ELSE IF ~IsSymlinkMode(Lookup(f, targetPath))
       THEN [fs |-> f, out |-> <<Line("Skipped (not a symlink)", source)>>,
             failed |-> FALSE]
       ELSE IF fault = "remove"
       THEN [fs |-> f, out |-> <<Line("Error removing", source)>>, failed |-> TRUE]
       ELSE [fs |-> Remove(f, targetPath), out |-> <<Line("Removed", source)>>,
             failed |-> FALSE]

(***************************************************************************)
(* linker.ParseProfiles.  A string is a sequence of characters.            *)
(***************************************************************************)
\* the name of the default profile, as one string
GeneralName == <<"general">>

\* unicode.IsSpace
IsSpace(c) == c = " "

\* strings.Split(s, ","): the pieces between the commas, from position i on,
\* the current piece being acc
RECURSIVE SplitFrom(_, _, _)
SplitFrom(s, i, acc) ==
    IF i > Len(s) THEN <<acc>>
    ELSE IF s[i] = "," THEN <<acc>> \o SplitFrom(s, i + 1, <<>>)
    ELSE SplitFrom(s, i + 1, Append(acc, s[i]))

Split(s) == SplitFrom(s, 1, <<>>)

\* strings.TrimLeft of white space
RECURSIVE TrimLeft(_)
TrimLeft(s) == IF s # <<>> /\ IsSpace(Head(s)) THEN TrimLeft(Tail(s)) ELSE s

\* strings.TrimRight of white space
RECURSIVE TrimRight(_)
TrimRight(s) ==
    IF s # <<>> /\ IsSpace(s[Len(s)]) THEN TrimRight(SubSeq(s, 1, Len(s) - 1)) ELSE s

\* strings.TrimSpace
TrimSpace(s) == TrimRight(TrimLeft(s))

\* ParseProfiles, had it returned the pieces as they are
ParseProfilesNoTrim(profileStr) ==
    IF profileStr = <<>> THEN <<GeneralName>>
    ELSE Split(profileStr)

\* ParseProfiles, had it left out the empty names
ParseProfilesNoEmpty(profileStr) ==
    IF profileStr = <<>> THEN <<GeneralName>>
    ELSE LET profiles == Split(profileStr)
         IN SelectSeq([i \in DOMAIN profiles |-> TrimSpace(profiles[i])],
                      LAMBDA p : p # <<>>)

\* ParseProfiles(profileStr)
ParseProfiles(profileStr) ==
    IF profileStr = <<>> THEN <<GeneralName>>
    ELSE LET profiles == Split(profileStr)
         IN [i \in DOMAIN profiles |-> TrimSpace(profiles[i])]

(***************************************************************************)
(* linker.Check and linker.List: the body of the loop over the mapping     *)
(***************************************************************************)
\* CheckOne, had it put right the link that points elsewhere
CheckOneRepair(f, m, source, fault) ==
    LET targetPath == ExpandPath(m[source], Home)
        sourcePath == SourcePath(source)
        st == LstatResult(f, targetPath, fault)
        e == Lookup(f, targetPath)
    IN IF st = "ENOENT"
       THEN [fs |-> f, issues |-> <<Line("Missing link", source)>>, failed |-> FALSE]
       ELSE IF st # "ok"
       THEN [fs |-> f, issues |-> <<Line("Error checking", source)>>, failed |-> TRUE]
       ELSE IF ~IsSymlinkMode(e)
       THEN [fs |-> f, issues |-> <<Line("Not a symlink", source)>>, failed |-> FALSE]
       ELSE IF fault = "readlink"
       THEN [fs |-> f, issues |-> <<Line("Error reading link", source)>>, failed |-> TRUE]
       ELSE IF e.tag # sourcePath
       THEN [fs |-> Put(f, targetPath, Symlink(sourcePath)),
             issues |-> <<Line("Incorrect link", source)>>, failed |-> FALSE]
       ELSE [fs |-> f, issues |-> <<>>, failed |-> FALSE]

\* CheckOne, had it taken every symlink for a correct one
CheckOneAnyLink(f, m, source, fault) ==
    LET targetPath == ExpandPath(m[source], Home)
        st == LstatResult(f, targetPath, fault)
        e == Lookup(f, targetPath)
    IN IF st = "ENOENT"
       THEN [fs |-> f, issues |-> <<Line("Missing link", source)>>, failed |-> FALSE]
       ELSE IF st # "ok"
       THEN [fs |-> f, issues |-> <<Line("Error checking", source)>>, failed |-> TRUE]
       ELSE IF ~IsSymlinkMode(e)
       THEN [fs |-> f, issues |-> <<Line("Not a symlink", source)>>, failed |-> FALSE]
       ELSE IF fault = "readlink"
       THEN [fs |-> f, issues |-> <<Line("Error reading link", source)>>, failed |-> TRUE]
       ELSE [fs |-> f, issues |-> <<>>, failed |-> FALSE]

\* Check: one iteration of the loop; issues is what it appends to the issues
CheckOne(f, m, source, fault) ==
    LET targetPath == ExpandPath(m[source], Home)
        sourcePath == SourcePath(source)
        st == LstatResult(f, targetPath, fault)
        e == Lookup(f, targetPath)
    IN IF st = "ENOENT"
       THEN [fs |-> f, issues |-> <<Line("Missing link", source)>>, failed |-> FALSE]
       ELSE IF st # "ok"
       THEN [fs |-> f, issues |-> <<Line("Error checking", source)>>, failed |-> TRUE]
       ELSE IF ~IsSymlinkMode(e)
       THEN [fs |-> f, issues |-> <<Line("Not a symlink", source)>>, failed |-> FALSE]
       ELSE IF fault = "readlink"
       THEN [fs |-> f, issues |-> <<Line("Error reading link", source)>>, failed |-> TRUE]
       ELSE IF ~SameLink(e.tag, sourcePath)
       THEN [fs |-> f, issues |-> <<Line("Incorrect link", source)>>, failed |-> FALSE]
       ELSE [fs |-> f, issues |-> <<>>, failed |-> FALSE]

\* Check after the loop: the lines written
CheckReport(issues) ==
    IF Len(issues) = 0 THEN <<Line("All links are correct", <<>>)>> ELSE issues

\* Check after the loop: nil, or the error "found %d issue(s)"
CheckReturn(issues) ==
    IF Len(issues) = 0 THEN [ret |-> "nil", count |-> 0]
    ELSE [ret |-> "error", count |-> Len(issues)]

\* utils.FileExists(sourcePath)
FileExists(exists, source) == source \in exists

\* ListOne, had it taken every symlink for a link to the source
ListOneAnyLink(f, exists, m, source, fault) ==
    LET targetPath == ExpandPath(m[source], Home)
        st == LstatResult(f, targetPath, fault)
        e == Lookup(f, targetPath)
        says(msg) == [fs |-> f, out |-> <<Line(msg, source)>>, linksFound |-> TRUE,
                      failed |-> msg = "error reading link"
                                 \/ st \notin {"ok", "ENOENT"}]
    IN IF st # "ok" THEN says("not linked")
       ELSE IF ~IsSymlinkMode(e) THEN says("exists but not a symlink")
       ELSE IF fault = "readlink" THEN says("error reading link")
       ELSE IF FileExists(exists, source) THEN says("ok")
       ELSE says("source missing")

\* List: one iteration of the loop
ListOne(f, exists, m, source, fault) ==
    LET targetPath == ExpandPath(m[source], Home)
        sourcePath == SourcePath(source)
        st == LstatResult(f, targetPath, fault)
        e == Lookup(f, targetPath)
        says(msg) == [fs |-> f, out |-> <<Line(msg, source)>>, linksFound |-> TRUE,
                      failed |-> msg = "error reading link"
                                 \/ st \notin {"ok", "ENOENT"}]
    IN IF st # "ok" THEN says("not linked")
       ELSE IF ~IsSymlinkMode(e) THEN says("exists but not a symlink")
       ELSE IF fault = "readlink" THEN says("error reading link")
       ELSE IF ~SameLink(e.tag, sourcePath) THEN says("expected")
       ELSE IF FileExists(exists, source) THEN says("ok")
       ELSE says("source missing")

\* List after the loop: the line written
ListReport(linksFound) ==
    IF ~linksFound THEN <<Line("No dotfile mappings found", <<>>)>> ELSE <<>>

\* ListReturn, had List failed on a finding the way Check does
ListReturnStrict(out) ==
    IF \E i \in DOMAIN out : out[i].msg \notin {"Dotfiles links for profile(s)", "ok"}
    THEN "error" ELSE "nil"

\* List after the loop: return nil
ListReturn(out) == "nil"

(***************************************************************************)
(* Specification of the merge: a configuration and one call of GetProfiles *)
(***************************************************************************)
NoCall == [names |-> <<>>, result |-> EmptyMap, nil |-> FALSE, err |-> NoError,
           shares |-> "", done |-> FALSE]

Idle == [op |-> "none", dryRun |-> FALSE, profiles |-> <<>>, cfgErr |-> "",
         err |-> NoError, map |-> EmptyMap, todo |-> {}, out |-> <<>>,
         issues |-> <<>>, linksFound |-> FALSE, failed |-> FALSE,
         ret |-> "nil", count |-> 0, again |-> FALSE]

InitMerge ==
    /\ mappingsFile = "parsed"
    /\ table \in Config
    /\ call = NoCall
    /\ srcExists = {}
    /\ fs = [p \in FsPaths |-> Absent]
    /\ run = Idle

\* a call of GetProfiles, the ranges over the maps taking any order; a
\* behaviour is one call on one configuration
CallGetProfiles ==
    /\ ~call.done
    /\ \E names \in NameLists : \E ord \in Orders(names) :
        LET r == GetProfiles(table, names, ord)
        IN /\ call' = [names |-> names, result |-> r.result, nil |-> r.nil,
                       err |-> r.err, shares |-> MakeProfile(table).shares,
                       done |-> TRUE]
           /\ table' = WriteThrough(table, MakeProfile(table).shares, r.result)
           /\ UNCHANGED <<mappingsFile, srcExists, fs, run>>

NextMerge == CallGetProfiles

SpecMerge == InitMerge /\ [][NextMerge]_vars

(***************************************************************************)
(* Specification of the linker: a configuration, a home directory, and     *)
(* runs of Link and Clean, one loop iteration per step.  Every system call *)
(* has the outcome the file system of the model gives it.                  *)
(***************************************************************************)
\* most entries present under the home directory before the first run
MaxPresent == 2

\* longest profile list given to a linker command
MaxLinkNames == 1

LinkNameLists == UNION {[1..n -> ProfileNames] : n \in 0..MaxLinkNames}

\* the tables with the default profile that a .mappings file decodes to
LinkConfigs == {c \in Config : DOMAIN c = {"general"}}

\* the tables without the default profile: of an empty file, and of a file
\* with the one section [work]
NoGeneralConfigs == {EmptyMap} \cup {c \in Config : DOMAIN c = {"work"}}

\* the sources named in table c
SourcesIn(c) == UNION {DOMAIN c[n] : n \in DOMAIN c}

\* the paths a run on configuration c can look at
Relevant(c) ==
    LET targets == {ExpandPath(c[n][s], Home) : <<n, s>> \in
                       {ns \in (DOMAIN c) \X Sources : ns[2] \in DOMAIN c[ns[1]]}}
    IN targets \cup {BackupPath(p) : p \in targets} \cup {Dir(p) : p \in targets}

\* the entries a path may hold before the first run
InitEntries(p) ==
    IF p = PathX
    THEN {Absent, File(p), Directory(p)} \cup {Symlink(SourcePath(s)) : s \in Sources}
             \cup {Symlink(SourcePath(<<"a">>) \o <<"/">>)}
    ELSE IF p = BackupPath(PathX)
    THEN {Absent, File(p), Symlink(SourcePath(<<"a">>))}
    ELSE IF p = PathS THEN {Absent, File(p), Directory(p)}
    ELSE IF p = PathY
    THEN {Absent, File(p)} \cup {Symlink(SourcePath(s)) : s \in Sources}
    ELSE {Absent, File(p)}

\* the file systems before the first run on configuration c: an entry lies
\* in a directory, and at most MaxPresent entries are there
InitFs(c) ==
    {f \in {[p \in FsPaths |->
                IF p = PathX THEN x
                ELSE IF p = BackupPath(PathX) THEN xb
                ELSE IF p = PathS THEN s
                ELSE IF p = PathY THEN y
                ELSE yb] :
              x \in InitEntries(PathX), xb \in InitEntries(BackupPath(PathX)),
              s \in InitEntries(PathS), y \in InitEntries(PathY),
              yb \in InitEntries(BackupPath(PathY))} :
        /\ \A p \in FsPaths \ Relevant(c) : f[p] = Absent
        /\ f[PathS].kind # "dir" =>
               f[PathY] = Absent /\ f[BackupPath(PathY)] = Absent
        /\ Cardinality({p \in FsPaths : f[p] # Absent}) <= MaxPresent}

\* the .mappings file parses and has the default profile
Init ==
    /\ mappingsFile = "parsed"
    /\ table \in LinkConfigs
    /\ call = NoCall
    /\ srcExists \in SUBSET SourcesIn(table)
    /\ fs \in InitFs(table)
    /\ run = Idle

\* any .mappings file; one that is missing or malformed decodes to nothing,
\* and the home directory is then in any of the states it has under some table
InitAny ==
    /\ mappingsFile \in FileStates
    /\ table \in IF mappingsFile = "parsed" THEN LinkConfigs \cup NoGeneralConfigs
                 ELSE {EmptyMap}
    /\ call = NoCall
    /\ srcExists \in SUBSET SourcesIn(table)
    /\ fs \in IF mappingsFile = "parsed" THEN InitFs(table)
              ELSE UNION {InitFs(c) : c \in LinkConfigs}
    /\ run = Idle

\* the flattened mappings cfg.GetProfiles may return for the requested profiles
Flattened(c, profiles) ==
    {GetProfiles(c, profiles, ord) : ord \in Orders(profiles)}

\* what a command has written when its loop starts
Header(op) ==
    IF op = "list" THEN <<Line("Dotfiles links for profile(s)", <<>>)>> ELSE <<>>

\* what a command writes and returns when its mapping has no entry
NoEntry(op) ==
    IF op = "list" THEN [out |-> Header(op) \o ListReport(FALSE),
                         ret |-> ListReturn(Header(op) \o ListReport(FALSE))]
    ELSE IF op = "check" THEN [out |-> CheckReport(<<>>), ret |-> CheckReturn(<<>>).ret]
    ELSE [out |-> <<>>, ret |-> "nil"]

\* Start, had the command gone into its loop without a resolved mapping
StartAnyway(op, profiles, dryRun) ==
    /\ run.ret # "running"
    /\ \E r \in Flattened(table, <<>>) :
           run' = [Idle EXCEPT !.op = op, !.dryRun = dryRun, !.profiles = profiles,
                               !.map = r.result, !.todo = DOMAIN r.result,
                               !.out = IF DOMAIN r.result = {} THEN NoEntry(op).out
                                       ELSE Header(op),
                               !.ret = IF DOMAIN r.result = {} THEN NoEntry(op).ret
                                       ELSE "running"]
    /\ UNCHANGED <<mappingsFile, table, call, srcExists, fs>>

\* Link, Clean, Check, List up to the loop: the configuration is parsed and
\* the profiles are resolved, or the command returns the error
StartRun(op, profiles, dryRun) ==
    /\ run.ret # "running"
    /\ LET cfg == ParseConfig(mappingsFile, table)
       IN IF cfg.err # ""
          THEN run' = [Idle EXCEPT !.op = op, !.dryRun = dryRun,
                                   !.profiles = profiles, !.cfgErr = cfg.err,
                                   !.ret = "error"]
          ELSE \E r \in Flattened(cfg.config, profiles) :
                 run' = [Idle EXCEPT
                           !.op = op, !.dryRun = dryRun, !.profiles = profiles,
                           !.err = r.err, !.map = r.result, !.todo = DOMAIN r.result,
                           !.out = IF r.err # NoError THEN <<>>
                                   ELSE IF DOMAIN r.result = {} THEN NoEntry(op).out
                                   ELSE Header(op),
                           !.ret = IF r.err # NoError THEN "error"
                                   ELSE IF DOMAIN r.result = {} THEN NoEntry(op).ret
                                   ELSE "running",
                           !.again = /\ op = "link" /\ ~dryRun
                                     /\ run.op = "link" /\ ~run.dryRun
                                     /\ run.profiles = profiles /\ run.err = NoError]

\* a command starts; nothing but the run changes before its loop
Start(op, profiles, dryRun) ==
    /\ StartRun(op, profiles, dryRun)
    /\ UNCHANGED <<mappingsFile, table, call, srcExists, fs>>

\* Iterate, had a failure in an iteration ended the loop with an error
IterateAbort(source, r) ==
    /\ fs' = r.fs
    /\ run' = [run EXCEPT !.todo = IF r.failed THEN {} ELSE @ \ {source},
                          !.out = @ \o r.out,
                          !.failed = @ \/ r.failed,
                          !.ret = IF r.failed THEN "error"
                                  ELSE IF run.todo = {source} THEN "nil"
                                  ELSE "running"]
    /\ UNCHANGED <<mappingsFile, table, call, srcExists>>

\* one iteration of the loop of Link or Clean has run with outcome r; the
\* loop ends after the last entry and the command returns nil
Iterate(source, r) ==
    /\ fs' = r.fs
    /\ run' = [run EXCEPT !.todo = @ \ {source},
                          !.out = @ \o r.out,
                          !.failed = @ \/ r.failed,
                          !.ret = IF run.todo = {source} THEN "nil" ELSE "running"]
    /\ UNCHANGED <<mappingsFile, table, call, srcExists>>

\* one iteration of the loop of Check; after the last entry the issues are
\* written and counted
IterateCheck(source, r) ==
    LET issues == run.issues \o r.issues
        last == run.todo = {source}
    IN /\ fs' = r.fs
       /\ run' = [run EXCEPT !.todo = @ \ {source},
                             !.issues = issues,
                             !.failed = @ \/ r.failed,
                             !.out = IF last THEN @ \o CheckReport(issues) ELSE @,
                             !.ret = IF last THEN CheckReturn(issues).ret ELSE "running",
                             !.count = IF last THEN CheckReturn(issues).count ELSE 0]
       /\ UNCHANGED <<mappingsFile, table, call, srcExists>>

\* one iteration of the loop of List; List returns after the last entry
IterateList(source, r) ==
    LET out == run.out \o r.out
        last == run.todo = {source}
    IN /\ fs' = r.fs
       /\ run' = [run EXCEPT !.todo = @ \ {source},
                             !.linksFound = r.linksFound,
                             !.failed = @ \/ r.failed,
                             !.out = IF last THEN out \o ListReport(r.linksFound) ELSE out,
                             !.ret = IF last THEN ListReturn(out) ELSE "running"]
       /\ UNCHANGED <<mappingsFile, table, call, srcExists>>

StartLink == \E profiles \in LinkNameLists, dryRun \in BOOLEAN :
                 Start("link", profiles, dryRun)

\* the range over the mapping visits the remaining entries in any order
LinkEntry ==
    /\ run.op = "link" /\ run.ret = "running"
    /\ \E source \in run.todo :
           Iterate(source, LinkOne(fs, srcExists, run.map, source, run.dryRun, "none"))

StartClean == \E profiles \in LinkNameLists : Start("clean", profiles, FALSE)

CleanEntry ==
    /\ run.op = "clean" /\ run.ret = "running"
    /\ \E source \in run.todo :
           Iterate(source, CleanOne(fs, run.map, source, "none"))

Next == StartLink \/ LinkEntry \/ StartClean \/ CleanEntry

Spec == Init /\ [][Next]_vars

(***************************************************************************)
(* One command on a home directory as it is first found, given any         *)
(* .mappings file and any list of profile names, when system calls may     *)
(* fail for a reason outside the model: in each iteration one kind of      *)
(* system call, or none, returns an error.                                 *)
(***************************************************************************)
First(op, dryRun) ==
    /\ run.op = "none"
    /\ \E profiles \in NameLists : Start(op, profiles, dryRun)

FirstLink == \E dryRun \in BOOLEAN : First("link", dryRun)

FirstClean == First("clean", FALSE)

FirstCheck == First("check", FALSE)

FirstList == First("list", FALSE)

LinkEntryFaulty ==
    /\ run.op = "link" /\ run.ret = "running"
    /\ \E source \in run.todo, fault \in Faults :
           Iterate(source, LinkOne(fs, srcExists, run.map, source, run.dryRun, fault))

CleanEntryFaulty ==
    /\ run.op = "clean" /\ run.ret = "running"
    /\ \E source \in run.todo, fault \in CleanFaults :
           Iterate(source, CleanOne(fs, run.map, source, fault))

CheckEntryFaulty ==
    /\ run.op = "check" /\ run.ret = "running"
    /\ \E source \in run.todo, fault \in ReadFaults :
           IterateCheck(source, CheckOne(fs, run.map, source, fault))

ListEntryFaulty ==
    /\ run.op = "list" /\ run.ret = "running"
    /\ \E source \in run.todo, fault \in ReadFaults :
           IterateList(source, ListOne(fs, srcExists, run.map, source, fault))

NextFaulty == \/ FirstLink \/ LinkEntryFaulty \/ FirstClean \/ CleanEntryFaulty
              \/ FirstCheck \/ CheckEntryFaulty \/ FirstList \/ ListEntryFaulty

SpecFaulty == InitAny /\ [][NextFaulty]_vars

(***************************************************************************)
(* Two commands in a row on the same list of profile names, no system call *)
(* failing for a reason outside the model: Link and then Check, a dry run  *)
(* of Link and then Link, Check and then List.  The first command's run    *)
(* is kept beside the file system it started from.                         *)
(***************************************************************************)
NoSequel(f) == [first |-> Idle, before |-> f, between |-> f]

InitSequel ==
    /\ mappingsFile = "parsed"
    /\ table \in LinkConfigs
    /\ srcExists \in SUBSET SourcesIn(table)
    /\ fs \in InitFs(table)
    /\ call = NoSequel(fs)
    /\ run = Idle

\* the first command
Open(op, dryRun) ==
    /\ run.op = "none"
    /\ \E profiles \in LinkNameLists : Start(op, profiles, dryRun)

OpenLink == \E dryRun \in BOOLEAN : Open("link", dryRun)

OpenCheck == Open("check", FALSE)

\* the second command, on the profile list of the first, which has returned
Sequel(op, dryRun) ==
    /\ call.first.op = "none" /\ run.op # "none" /\ run.ret # "running"
    /\ StartRun(op, run.profiles, dryRun)
    /\ call' = [call EXCEPT !.first = run, !.between = fs]
    /\ UNCHANGED <<mappingsFile, table, srcExists, fs>>

ThenCheck == run.op = "link" /\ ~run.dryRun /\ Sequel("check", FALSE)

ThenLink == run.op = "link" /\ run.dryRun /\ Sequel("link", FALSE)

ThenList == run.op = "check" /\ Sequel("list", FALSE)

CheckEntry ==
    /\ run.op = "check" /\ run.ret = "running"
    /\ \E source \in run.todo :
           IterateCheck(source, CheckOne(fs, run.map, source, "none"))

ListEntry ==
    /\ run.op = "list" /\ run.ret = "running"
    /\ \E source \in run.todo :
           IterateList(source, ListOne(fs, srcExists, run.map, source, "none"))

NextSequel == \/ OpenLink \/ OpenCheck \/ ThenCheck \/ ThenLink \/ ThenList
              \/ LinkEntry \/ CheckEntry \/ ListEntry

SpecSequel == InitSequel /\ [][NextSequel]_vars

(***************************************************************************)
(* Specification of the pure functions: one call of utils.ExpandPath or of *)
(* linker.ParseProfiles on any small argument                              *)
(***************************************************************************)
\* longest path given to ExpandPath, in tokens
MaxPathLen == 4

\* longest string given to ParseProfiles, in characters
MaxStrLen == 4

PathTokens == {"~", "/", "x"}

Paths == UNION {[1..n -> PathTokens] : n \in 0..MaxPathLen}

\* what os.UserHomeDir() may return: an error, a directory, the root
Homes == {[err |-> TRUE, dir |-> <<>>], Home, [err |-> FALSE, dir |-> <<"/">>]}

Chars == {"a", "b", ",", " "}

Strings == UNION {[1..n -> Chars] : n \in 0..MaxStrLen}

InitUtil ==
    /\ mappingsFile = "parsed"
    /\ table = EmptyMap
    /\ call = NoCall
    /\ srcExists = {}
    /\ fs = [p \in FsPaths |-> Absent]
    /\ run = Idle

CallExpandPath ==
    /\ ~call.done
    /\ \E path \in Paths, home \in Homes :
           call' = [fn |-> "ExpandPath", path |-> path, home |-> home,
                    ret |-> ExpandPath(path, home), done |-> TRUE]
    /\ UNCHANGED <<mappingsFile, table, srcExists, fs, run>>

CallParseProfiles ==
    /\ ~call.done
    /\ \E profileStr \in Strings :
           call' = [fn |-> "ParseProfiles", profileStr |-> profileStr,
                    ret |-> ParseProfiles(profileStr), done |-> TRUE]
    /\ UNCHANGED <<mappingsFile, table, srcExists, fs, run>>

NextUtil == CallExpandPath \/ CallParseProfiles

SpecUtil == InitUtil /\ [][NextUtil]_vars

(***************************************************************************)
(* Properties of the merge, checked under SpecMerge                        *)
(***************************************************************************)
\* the call returned a mapping of a configuration that has the default profile
Merged == call.done /\ call.err = NoError /\ "general" \in DOMAIN table

\* the sources that mapping m sends to target t
SourcesOf(m, t) == {s \in DOMAIN m : m[s] = t}

\* the profiles applied by a call, in the order of application: general, then
\* the requested names that are not general
Applied(names) == <<"general">> \o SelectSeq(names, LAMBDA n : n # "general")

\* the positions of Applied(names) whose profile maps some source to target t
Mapping(names, t) ==
    {i \in DOMAIN Applied(names) : SourcesOf(table[Applied(names)[i]], t) # {}}

\* the largest element of a non-empty set of numbers
Max(S) == CHOOSE x \in S : \A y \in S : y <= x

\* the smallest element of a non-empty set of numbers
Min(S) == CHOOSE x \in S : \A y \in S : x <= y

\* C1: the mapping returned by GetProfiles for a table with the default
\* profile and existing requested names never maps two distinct sources to
\* the same target.
C1_UniqueTargets ==
    Merged => \A s1, s2 \in DOMAIN call.result :
                  call.result[s1] = call.result[s2] => s1 = s2

\* C2: when two applied profiles map different sources to the same target T,
\* the result has exactly one entry with target T, and its source is one the
\* last applied profile that maps T gives for T.
C2_LastAppliedWins ==
    Merged =>
      \A t \in Targets :
        LET at == Mapping(call.names, t)
            conflict == \E i, j \in at : i # j /\
                           \E s1 \in SourcesOf(table[Applied(call.names)[i]], t),
                              s2 \in SourcesOf(table[Applied(call.names)[j]], t) :
                               s1 # s2
        IN conflict =>
             /\ Cardinality(SourcesOf(call.result, t)) = 1
             /\ SourcesOf(call.result, t) \subseteq
                    SourcesOf(table[Applied(call.names)[Max(at)]], t)

\* the mappings GetProfiles may return for the names, one per order of the
\* ranges over the maps
Outcomes(names) == {GetProfiles(table, names, ord) : ord \in Orders(names)}

MissingAt(names) ==
    {i \in DOMAIN names : names[i] # "general" /\ names[i] \notin DOMAIN table}

\* C4: GetProfiles returns an error and no mapping exactly when a requested
\* name other than general is not in the table, and the error names the first
\* such name of the list.
C4_ProfileNotFound ==
    call.done =>
        /\ (call.err # NoError) = (MissingAt(call.names) # {})
        /\ call.nil = (call.err # NoError)
        /\ MissingAt(call.names) # {} =>
               call.err.missing = call.names[Min(MissingAt(call.names))]

\* a call has failed on its second name, its first name being a profile of
\* the table other than general
C4_Witness ==
    /\ call.done /\ Len(call.names) = 2
    /\ call.names[1] \in DOMAIN table /\ call.names[1] # "general"
    /\ call.names[2] # call.names[1]
    /\ call.err = [missing |-> call.names[2]]

\* C5: GetProfiles of the empty list returns what GetProfiles([general])
\* returns, and that is exactly the entries of the default profile.
C5_EmptyIsGeneral ==
    call.done /\ "general" \in DOMAIN table
              /\ (call.names = <<>> \/ call.names = <<"general">>) =>
        /\ call.err = NoError /\ ~call.nil
        /\ call.result = table["general"]
        /\ Outcomes(<<>>) = Outcomes(<<"general">>)

\* a call with the empty list has returned the two entries of a default
\* profile that maps both sources to one target
C5_Witness ==
    /\ call.done /\ call.names = <<>> /\ "general" \in DOMAIN table
    /\ Cardinality(DOMAIN call.result) = 2
    /\ \E t \in Targets : SourcesOf(call.result, t) = Sources

\* the requested profiles of the call other than the default profile
Requested == {call.names[i] : i \in DOMAIN call.names} \ {"general"}

\* no requested profile has source s or target t
Untouched(s, t) ==
    \A n \in Requested :
        /\ s \notin DOMAIN table[n]
        /\ \A s2 \in DOMAIN table[n] : table[n][s2] # t

\* C23: every entry (s, t) of the default profile whose source and target
\* appear in no requested profile is in the mapping GetProfiles returns.
C23_DefaultKept ==
    Merged =>
        \A s \in DOMAIN table["general"] :
            Untouched(s, table["general"][s]) =>
                /\ s \in DOMAIN call.result
                /\ call.result[s] = table["general"][s]

\* a call [work, home] has returned an entry of the default profile beside
\* an entry of a requested profile that maps another source to another target
C23_Witness ==
    /\ Merged /\ call.names = <<"work", "home">>
    /\ DOMAIN table["work"] # {} /\ DOMAIN table["home"] # {}
    /\ \E s \in DOMAIN table["general"] :
           /\ Untouched(s, table["general"][s])
           /\ call.result[s] = table["general"][s]
    /\ Cardinality(DOMAIN call.result) = 2

\* C24: GetProfiles never modifies the profile table: after any call, be it
\* successful or failing, every profile has the entries it had before, and
\* the mapping returned is a new map that is the map of no profile.
C24_TableUntouched ==
    [][call'.done => table' = table /\ call'.shares \notin DOMAIN table']_vars

\* a successful call has returned a non-empty mapping that differs from
\* every profile of the table, general included
C24_Witness ==
    /\ Merged /\ call.names = <<"work">>
    /\ DOMAIN call.result # {}
    /\ \A n \in DOMAIN table : table[n] # call.result

\* C25: the mapping GetProfiles returns depends on the profile table and the
\* list of names only: every order of the ranges over the maps gives the
\* mapping the call returned.
C25_OrderIndependent ==
    call.done =>
        Outcomes(call.names)
            = {[result |-> call.result, nil |-> call.nil, err |-> call.err]}

\* the positions of Applied(names) after position i whose profile has source s
Remapped(names, i, s) ==
    {j \in DOMAIN Applied(names) : j > i /\ s \in DOMAIN table[Applied(names)[j]]}

\* C26: no target is lost by the merge: the target of every entry of an
\* applied profile whose source no later applied profile maps again is the
\* target of some entry of the mapping GetProfiles returns.
C26_NoTargetLost ==
    Merged =>
        \A i \in DOMAIN Applied(call.names) :
            \A s \in DOMAIN table[Applied(call.names)[i]] :
                Remapped(call.names, i, s) = {} =>
                    SourcesOf(call.result, table[Applied(call.names)[i]][s]) # {}

(***************************************************************************)
(* Properties of the linker, checked under Spec                            *)
(***************************************************************************)
\* the step is an iteration of the loop of the running command
InLoop(op) == run.op = op /\ run.ret = "running"

\* the sources whose entries the step has visited
Visited == run.todo \ run'.todo

\* the lines the step has written
NewLines == SubSeq(run'.out, Len(run.out) + 1, Len(run'.out))

\* the resolved target of the entry of source s in the mapping of the run
TargetPath(s) == ExpandPath(run.map[s], Home)

\* some line of the run says msg
Said(msg) == \E i \in DOMAIN run.out : run.out[i].msg = msg

\* C6 (its first half): a non-dry-run Link directly after a non-dry-run Link
\* on the same profiles changes nothing in the file system, here even when
\* every source exists and no system call of the run has failed.
C6_SecondLinkIdle ==
    [][InLoop("link") /\ run.again /\ ~run'.failed
           /\ DOMAIN run.map \subseteq srcExists => fs' = fs]_vars

\* C7: no step of a dry-run Link changes the file system.
C7_DryRunNoMutation ==
    [][run'.op = "link" /\ run'.dryRun => fs' = fs]_vars

\* a dry run has ended that met a symlink pointing elsewhere, said it would
\* override it and create the link, and the symlink is still there
C7_Witness ==
    /\ run.op = "link" /\ run.dryRun /\ run.ret = "nil"
    /\ Said("Overriding") /\ Said("Would create")
    /\ \E s \in DOMAIN run.map :
           /\ Lookup(fs, TargetPath(s)).kind = "symlink"
           /\ Lookup(fs, TargetPath(s)).tag # SourcePath(s)

\* C8: after a non-dry-run Link in which no system call failed, the resolved
\* target of every entry whose source exists is a symlink to the source path.
C8_LinkedAfterLink ==
    run.op = "link" /\ ~run.dryRun /\ run.ret = "nil" /\ run.err = NoError
                    /\ ~run.failed =>
        \A s \in (DOMAIN run.map) \cap srcExists :
            Lookup(fs, TargetPath(s)) = Symlink(SourcePath(s))

\* C9: when a non-dry-run Link finds a file or directory at a target, the
\* iteration leaves that entry at the .bak path (whatever was there before)
\* and the symlink at the target.
C9_BackupKeepsEntry ==
    [][InLoop("link") /\ ~run.dryRun =>
          \A s \in Visited :
              NewLines[1].msg \in {"Backed up", "Error backing up"} =>
                  /\ fs'[BackupPath(TargetPath(s))] = fs[TargetPath(s)]
                  /\ fs'[TargetPath(s)] = Symlink(SourcePath(s))]_vars

\* C10: no step of Clean changes an entry that is not a symlink; Clean
\* returns no error once the profiles are resolved, and says "Skipped (not
\* found)" of an entry whose target is absent.
C10_CleanSafety ==
    [][run'.op = "clean" =>
          /\ \A p \in FsPaths : fs[p].kind # "symlink" => fs'[p] = fs[p]
          /\ run'.cfgErr = "" /\ run'.err = NoError => run'.ret # "error"
          /\ \A s \in Visited :
                 Lstat(fs, TargetPath(s)) = "ENOENT" /\ ~run'.failed =>
                     NewLines = <<Line("Skipped (not found)", s)>>]_vars

\* a Clean has ended that skipped a file and an absent target, and the file
\* is still there
C10_Witness ==
    /\ run.op = "clean" /\ run.ret = "nil"
    /\ Said("Skipped (not a symlink)") /\ Said("Skipped (not found)")
    /\ \E s \in DOMAIN run.map : Lookup(fs, TargetPath(s)).kind \in {"file", "dir"}

\* C16: an iteration of Link on an entry whose source does not exist writes
\* the warning and nothing else, changes nothing in the file system in
\* either mode, and the loop goes on: the entry is done, the others are still
\* to do, and Link returns nil after the last one.
C16_MissingSourceSkipped ==
    [][InLoop("link") =>
          \A s \in Visited :
              s \notin srcExists =>
                  /\ NewLines = <<Line("Warning: Source file does not exist", s)>>
                  /\ fs' = fs
                  /\ run'.todo = run.todo \ {s}
                  /\ run'.ret = IF run'.todo = {} THEN "nil" ELSE "running"]_vars

\* a Link has returned nil that warned of a missing source, left the file at
\* that entry's target alone, and created the link of another entry
C16_Witness ==
    /\ run.op = "link" /\ ~run.dryRun /\ run.ret = "nil" /\ run.err = NoError
    /\ Said("Warning: Source file does not exist") /\ Said("Created")
    /\ \E s \in (DOMAIN run.map) \ srcExists :
           Lookup(fs, TargetPath(s)).kind = "file"

(***************************************************************************)
(* Properties of one command, checked under SpecFaulty                     *)
(***************************************************************************)
\* the command op has returned after its loop
Completed(op) ==
    run.op = op /\ run.ret # "running" /\ run.cfgErr = "" /\ run.err = NoError

\* C11 (as stated): after a Clean in which no removal failed, no resolved
\* target of the flattened mapping is a symlink.
C11_NoLinkAfterClean ==
    Completed("clean") /\ ~Said("Error removing") =>
        \A s \in DOMAIN run.map : Lookup(fs, TargetPath(s)).kind # "symlink"

\* C11 (amended): after a Clean in which no removal failed and every target
\* could be examined (no os.Lstat error other than "not found"), no resolved
\* target of the flattened mapping is a symlink, wherever the symlinks pointed.
C11_NoLinkAfterCleanExamined ==
    Completed("clean") /\ ~Said("Error removing") /\ ~Said("Error checking") =>
        \A s \in DOMAIN run.map : Lookup(fs, TargetPath(s)).kind # "symlink"

\* a Clean without a failure on a mapping of two entries has removed a
\* symlink, and nothing is left at the targets
C11_Witness ==
    /\ Completed("clean") /\ ~run.failed
    /\ Cardinality(DOMAIN run.map) = 2
    /\ Said("Removed")
    /\ \A s \in DOMAIN run.map : Lookup(fs, TargetPath(s)) = Absent

\* the entries whose target Check could not examine or read
Unreadable ==
    {s \in DOMAIN run.map :
        \E i \in DOMAIN run.issues :
            /\ run.issues[i].src = s
            /\ run.issues[i].msg \in {"Error checking", "Error reading link"}}

\* the entries whose target is absent, not a symlink, unreadable, or a
\* symlink that points elsewhere
Wrong ==
    {s \in DOMAIN run.map : Lookup(fs, TargetPath(s)) # Symlink(SourcePath(s))}
        \cup Unreadable

\* C12: Check returns nil exactly when every entry's target is a symlink to
\* the entry's source path (and could be read); otherwise it returns an error
\* whose count is the number of entries with a wrong target, each counted once.
C12_CheckCounts ==
    Completed("check") =>
        /\ (run.ret = "nil") = (Wrong = {})
        /\ run.ret = "nil" => run.count = 0 /\ Said("All links are correct")
        /\ run.ret # "nil" =>
               /\ run.ret = "error"
               /\ run.count = Cardinality(Wrong)
               /\ Len(run.issues) = run.count
               /\ \A s \in Wrong :
                      Cardinality({i \in DOMAIN run.issues : run.issues[i].src = s}) = 1

\* a Check of two entries at two targets, one a correct link and one
\* missing, has returned the error with count 1
C12_Witness ==
    /\ Completed("check") /\ ~run.failed
    /\ run.ret = "error" /\ run.count = 1
    /\ Cardinality({run.map[s] : s \in DOMAIN run.map}) = 2
    /\ \E s \in DOMAIN run.map : Lookup(fs, TargetPath(s)) = Symlink(SourcePath(s))
    /\ \E s \in DOMAIN run.map : Lookup(fs, TargetPath(s)) = Absent

\* C13: no step of Check and no step of List changes the file system.
C13_ReadOnly ==
    [][run'.op \in {"check", "list"} => fs' = fs]_vars

\* a List has ended that found a link pointing elsewhere, and the link is
\* still there, with a backup beside it
C13_Witness ==
    /\ run.op = "list" /\ run.ret = "nil" /\ run.cfgErr = "" /\ run.err = NoError
    /\ Said("expected")
    /\ \E s \in DOMAIN run.map :
           /\ Lookup(fs, TargetPath(s)).kind = "symlink"
           /\ Lookup(fs, TargetPath(s)).tag # SourcePath(s)
           /\ Lookup(fs, BackupPath(TargetPath(s))).kind = "file"

\* C14: once the configuration and the profiles are resolved, List returns
\* nil, whatever it finds at the targets.
C14_ListSucceeds ==
    run.op = "list" /\ run.cfgErr = "" /\ run.err = NoError =>
        /\ run.ret \in {"running", "nil"}
        /\ run.todo = {} => run.ret = "nil"

\* a List has returned after it found a correct link whose source is missing
\* and a link it could not read
C14_Witness ==
    /\ Completed("list") /\ run.ret = "nil"
    /\ Said("source missing") /\ Said("error reading link")

\* the configuration or the requested profiles do not resolve: the file is
\* missing or malformed, has no default profile, or a requested name is not
\* in the table
Unresolvable(profiles) ==
    \/ mappingsFile # "parsed"
    \/ "general" \notin DOMAIN table
    \/ \E i \in DOMAIN profiles : profiles[i] \notin DOMAIN table

\* C15: when the configuration or the requested profiles do not resolve, the
\* command returns an error without entering its loop, and neither the step
\* that starts it nor any later step changes the file system.
C15_AbortBeforeLoop ==
    [][(run.op = "none" /\ run'.op # "none" /\ Unresolvable(run'.profiles) =>
           /\ run'.ret = "error"
           /\ run'.cfgErr # "" \/ run'.err # NoError
           /\ run'.todo = {}
           /\ run'.out = <<>>
           /\ fs' = fs)
       /\ (run.cfgErr # "" \/ run.err # NoError => fs' = fs)]_vars

\* Link [general, work] has returned the profile-not-found error on a table
\* without work, where an existing source maps to a target that is a file
C15_Witness ==
    /\ run.op = "link" /\ ~run.dryRun /\ run.ret = "error"
    /\ run.profiles = <<"general", "work">> /\ run.err = [missing |-> "work"]
    /\ \E s \in srcExists \cap DOMAIN table["general"] :
           Lookup(fs, ExpandPath(table["general"][s], Home)).kind = "file"

\* the number of iterations that have written about the entry of source s:
\* every iteration ends with one line that is not "Overriding" or "Backed up"
VisitsOf(out, s) ==
    Cardinality({i \in DOMAIN out :
                    out[i].src = s /\ out[i].msg \notin {"Overriding", "Backed up"}})

\* the lines that report a failed system call
ErrorLines ==
    {"Error reading existing link", "Error removing existing link",
     "Error backing up", "Error creating directory", "Error creating link",
     "Error checking", "Error removing"}

\* C17: whatever fails in an iteration of Link or Clean, the iteration is
\* over one entry, the other entries stay to be done, each entry has been
\* visited once when its iteration is over, and the command returns nil
\* after the last entry.
C17_FailureSkipsOneEntry ==
    [][InLoop("link") \/ InLoop("clean") =>
          /\ Cardinality(Visited) = 1
          /\ run'.todo = run.todo \ Visited
          /\ run'.ret = IF run'.todo = {} THEN "nil" ELSE "running"
          /\ \A s \in DOMAIN run.map :
                 VisitsOf(run'.out, s) = IF s \in run'.todo THEN 0 ELSE 1]_vars

\* a Link has returned nil after a system call failed for one entry and the
\* link of the entry visited after it was created
C17_Witness ==
    /\ Completed("link") /\ run.ret = "nil" /\ run.failed
    /\ \E i, j \in DOMAIN run.out :
           /\ i < j
           /\ run.out[i].msg \in ErrorLines
           /\ run.out[j].msg = "Created"
           /\ run.out[i].src # run.out[j].src

\* C18: ParseConfig returns a configuration only for a file that parses and
\* has the profile general; for a file without it, the empty file included,
\* it returns an error and no configuration; so a command calls GetProfiles
\* only on a table with the default profile.
C18_GeneralRequired ==
    LET r == ParseConfig(mappingsFile, table)
    IN /\ r.nil = (r.err # "")
       /\ ~r.nil => /\ mappingsFile = "parsed"
                    /\ "general" \in DOMAIN r.config
                    /\ r.config = table
       /\ mappingsFile = "parsed" /\ "general" \notin DOMAIN table =>
              /\ r.nil
              /\ r.err = "[general] profile is required but not found in .mappings"
       /\ run.op # "none" =>
              /\ run.cfgErr = r.err
              /\ run.cfgErr = "" => "general" \in DOMAIN table
              /\ run.cfgErr # "" => run.ret = "error" /\ run.map = EmptyMap

\* a command has failed on an empty .mappings file
C18_Witness ==
    /\ run.op # "none" /\ mappingsFile = "parsed" /\ table = EmptyMap
    /\ run.cfgErr = "[general] profile is required but not found in .mappings"
    /\ run.ret = "error"

\* the lines Link writes when it goes on to create the symlink of an entry
CreationLines ==
    {"Would create", "Created", "Error creating directory", "Error creating link"}

\* C21: when os.Lstat of a target fails with an error other than not-found
\* (here ENOTDIR: the parent of the target is not a directory), Link does not
\* go on to create the symlink of the entry, and List does not report the
\* entry as "not linked".
C21_LstatErrorDistinct ==
    [][\A s \in Visited :
          Lstat(fs, TargetPath(s)) = "ENOTDIR" =>
              /\ run.op = "link" /\ s \in srcExists =>
                     \A i \in DOMAIN NewLines : NewLines[i].msg \notin CreationLines
              /\ run.op = "list" =>
                     \A i \in DOMAIN NewLines : NewLines[i].msg # "not linked"]_vars

\* the target of the entry of s is a symlink whose stored target is not the
\* source path as a string but denotes it
Unnormalised(s) ==
    LET e == Lookup(fs, TargetPath(s))
    IN /\ e.kind = "symlink"
       /\ e.tag # SourcePath(s)
       /\ Clean(e.tag) = SourcePath(s)

\* C22: when the target of an entry is a symlink whose stored target denotes
\* the source path but differs from it as a string, and no system call
\* fails, Check counts the entry as an incorrect link, List reports it as
\* pointing elsewhere, and Link overrides it: a Link that is not a dry run
\* leaves the symlink with the exact source path.
C22_ByteExact ==
    [][\A s \in Visited :
          Unnormalised(s) /\ ~run'.failed =>
              /\ run.op = "check" =>
                     run'.issues = run.issues \o <<Line("Incorrect link", s)>>
              /\ run.op = "list" => NewLines = <<Line("expected", s)>>
              /\ run.op = "link" /\ s \in srcExists =>
                     /\ NewLines[1] = Line("Overriding", s)
                     /\ ~run.dryRun =>
                            fs'[TargetPath(s)] = Symlink(SourcePath(s))]_vars

\* a Check has counted as incorrect a symlink whose stored target is the
\* source path with a trailing separator
C22_Witness ==
    /\ Completed("check") /\ ~run.failed /\ run.ret = "error"
    /\ \E s \in DOMAIN run.map :
           /\ Unnormalised(s)
           /\ \E i \in DOMAIN run.issues : run.issues[i] = Line("Incorrect link", s)

\* the lines Link writes when it gives up an entry after a failed system call
LinkErrorLines ==
    {"Error backing up", "Error removing existing link",
     "Error creating directory", "Error creating link"}

\* C29: when a Link that is no dry run fails to complete an entry (an error
\* while backing up, removing the old link, creating the parent directory or
\* creating the symlink), what lies at the target path and at its .bak path
\* is what lay there before the iteration.
C29_FailedEntryUntouched ==
    [][InLoop("link") /\ ~run.dryRun =>
          \A s \in Visited :
              (\E i \in DOMAIN NewLines : NewLines[i].msg \in LinkErrorLines) =>
                  /\ fs'[TargetPath(s)] = fs[TargetPath(s)]
                  /\ fs'[BackupPath(TargetPath(s))] = fs[BackupPath(TargetPath(s))]]_vars

(***************************************************************************)
(* Properties of two commands in a row, checked under SpecSequel           *)
(***************************************************************************)
\* the sources of the entries for which the lines of out say msg
Reported(out, msg) == {out[i].src : i \in {j \in DOMAIN out : out[j].msg = msg}}

\* the second command has returned, and the first was command op
After(op, dryRun) ==
    /\ call.first.op = op /\ call.first.dryRun = dryRun
    /\ run.ret # "running"

\* C27: after a Link that is no dry run, on a profile list of which every
\* source exists and in which no file-system operation fails, a Check on
\* the same profile list reports no issue and returns nil.
C27_CheckAfterLink ==
    /\ After("link", FALSE) /\ run.op = "check"
    /\ call.first.ret = "nil" /\ ~call.first.failed
    /\ DOMAIN call.first.map \subseteq srcExists
    => run.ret = "nil" /\ run.count = 0 /\ run.issues = <<>>

\* C28: from one file-system state, the entries for which a dry run of Link
\* says 'Would create' are the entries for which a Link in which no
\* file-system operation fails says 'Created', and the entries it says
\* 'Skipped (already correct)' for are those the Link says it for.
C28_DryRunPreview ==
    /\ After("link", TRUE) /\ run.op = "link" /\ ~run.dryRun
    /\ call.between = call.before
    /\ run.ret = "nil" /\ ~run.failed
    => /\ Reported(call.first.out, "Would create") = Reported(run.out, "Created")
       /\ Reported(call.first.out, "Skipped (already correct)")
              = Reported(run.out, "Skipped (already correct)")

\* the lines List writes for an entry that is a symlink to its source
OkLines == {"ok", "source missing"}

\* List has returned nil and has written, for every entry, one of OkLines
ListAllOk ==
    /\ run.ret = "nil"
    /\ \A s \in DOMAIN run.map : \E m \in OkLines : s \in Reported(run.out, m)
    /\ \A i \in DOMAIN run.out :
           run.out[i].src \in DOMAIN run.map => run.out[i].msg \in OkLines

\* C30: Check and List agree on one file-system state and profile list:
\* Check returns nil exactly when List reports every entry as a symlink to
\* its source (with the success line or the 'source missing' line), and an
\* entry List reports with an error marker is among the issues of Check.
C30_CheckListAgree ==
    /\ After("check", FALSE) /\ run.op = "list"
    /\ call.between = call.before
    => /\ call.first.ret = "nil" <=> ListAllOk
       /\ \A i \in DOMAIN run.out :
              /\ run.out[i].src \in DOMAIN run.map
              /\ run.out[i].msg \notin OkLines
              => run.out[i].src \in {call.first.issues[j].src :
                                        j \in DOMAIN call.first.issues}
       /\ call.first.count
              = Cardinality({s \in DOMAIN run.map :
                               \A m \in OkLines : s \notin Reported(run.out, m)})

\* Check has counted one entry of two, and List has marked that entry as
\* pointing elsewhere and the other as a symlink to its source
C30_Witness ==
    /\ After("check", FALSE) /\ run.op = "list"
    /\ call.first.ret = "error" /\ call.first.count = 1
    /\ Reported(run.out, "expected") # {}
    /\ Reported(run.out, "ok") # {}

(***************************************************************************)
(* Properties of the pure functions, checked under SpecUtil                *)
(***************************************************************************)
\* C19: ExpandPath returns the path unchanged when it does not begin with
\* "~", when the home directory cannot be determined, or when "~" is followed
\* by something other than "/"; it returns the home directory for "~" and the
\* home directory joined with the remainder for a path that begins with "~/";
\* the call changes nothing else.
C19_ExpandPath ==
    [][call'.done /\ call'.fn = "ExpandPath" =>
          LET path == call'.path
              home == call'.home
              ret == call'.ret
              marked == Len(path) >= 1 /\ path[1] = "~"
          IN /\ ~marked => ret = path
             /\ home.err => ret = path
             /\ marked /\ Len(path) >= 2 /\ path[2] # "/" => ret = path
             /\ ~home.err /\ path = <<"~">> => ret = home.dir
             /\ ~home.err /\ marked /\ Len(path) >= 2 /\ path[2] = "/" =>
                    ret = Join(home.dir, SubSeq(path, 3, Len(path)))
             /\ UNCHANGED <<mappingsFile, table, srcExists, fs, run>>]_vars

\* ExpandPath has returned /h/x for ~/x
C19_Witness ==
    /\ call.done /\ call.fn = "ExpandPath"
    /\ call.path = <<"~", "/", "x">> /\ call.home = Home
    /\ call.ret = <<"/", "h", "/", "x">>

\* the positions of the commas of s, with 0 and Len(s) + 1 at the ends
Cuts(s) == {0, Len(s) + 1} \cup {i \in DOMAIN s : s[i] = ","}

\* the k-th smallest element of the set S of numbers
RECURSIVE Kth(_, _)
Kth(S, k) == IF k = 1 THEN Min(S) ELSE Kth(S \ {Min(S)}, k - 1)

\* t is p without its leading and trailing white space
IsTrimOf(t, p) ==
    /\ t # <<>> => t[1] # " " /\ t[Len(t)] # " "
    /\ \E i \in 1..(Len(p) + 1) :
           /\ i + Len(t) - 1 <= Len(p)
           /\ t = SubSeq(p, i, i + Len(t) - 1)
           /\ \A k \in DOMAIN p : (k < i \/ k >= i + Len(t)) => p[k] = " "

\* C20: ParseProfiles returns [general] for the empty string; for any other
\* string it returns one name per comma plus one, the k-th name being the
\* piece between the (k-1)-th and the k-th comma without its leading and
\* trailing white space.
C20_ParseProfiles ==
    call.done /\ call.fn = "ParseProfiles" =>
        LET s == call.profileStr
            ret == call.ret
        IN IF s = <<>> THEN ret = <<GeneralName>>
           ELSE /\ Len(ret) = Cardinality({i \in DOMAIN s : s[i] = ","}) + 1
                /\ \A k \in DOMAIN ret :
                       IsTrimOf(ret[k],
                                SubSeq(s, Kth(Cuts(s), k) + 1, Kth(Cuts(s), k + 1) - 1))

\* ParseProfiles has returned [b, a] for "b, a"
C20_Witness ==
    /\ call.done /\ call.fn = "ParseProfiles"
    /\ call.profileStr = <<"b", ",", " ", "a">>
    /\ call.ret = <<<<"b">>, <<"a">>>>

====
